---- MODULE Spec2Model ----
(***************************************************************************)
(* tinytex: the tree builder (parser.py, TexParser.parse) and the macro    *)
(* registry / resolution engine (user_commands.py over nodes.py).          *)
(*                                                                         *)
(* Objects live in a heap: a sequence of node records, an object's         *)
(* identity being its index.  A field that the code never assigned (an     *)
(* absent Python attribute) is 0.  val is the constructor argument:         *)
(* Environment.environment, Command.command, Text._text.                   *)
(***************************************************************************)
EXTENDS Integers, Sequences, FiniteSets, TLC

VARIABLES
    nodes,      \* the heap of node objects (parser.py / nodes.py Node and subclasses)
    here,       \* TexParser.parse: the cursor
    status,     \* "parsing" | "done" | "error"   (builder);  "ready" (engine);
                \* "resolving" | "returned" | "raised"   (resolve in steps)
    err,        \* class of the exception that ended the operation, "" when none
    steps,       \* number of steps taken (tokens consumed, engine operations)
    tok,        \* the token handled by the last step
    prev,       \* the cursor before the last step
    nodes0,     \* the heap before the last step
    defs,       \* UserCommand objects constructed so far
    res,        \* result of the last engine operation
    stack       \* resolve in steps: the process / newchildren frames in progress

vars == <<nodes, here, status, err, steps, tok, prev, nodes0, defs, res, stack>>

-----------------------------------------------------------------------------
(* Bounds *)

MaxTokens == 5

EnvNames == {"itemize", "enumerate"}
CmdNames == {"a"}

-----------------------------------------------------------------------------
(* Node model *)

ParamClasses == {"OptionalParameter", "RequiredParameter"}

\* Node.__init__ and the subclasses' __init__: a fresh object, no parent yet
NewNode(cls, val) ==
    [cls |-> cls, val |-> val, kids |-> <<>>, parent |-> 0, link |-> 0]

\* Node.append: self._children.append(child); child.parent = self; return child
Node_append(ns, p, child) ==
    LET id == Len(ns) + 1
    IN  [Append(ns, [child EXCEPT !.parent = p]) EXCEPT ![p].kids = Append(@, id)]

\* Command.append: assert isinstance(child, (OptionalParameter, RequiredParameter))
Command_append_ok(child) == child.cls \in ParamClasses

\* append with the assertion of Command.append left out
append_unasserted(ns, p, child) ==
    [nodes |-> Node_append(ns, p, child), id |-> Len(ns) + 1, err |-> ""]

\* x.append(child) dispatched on the class of x: the heap afterwards, the new
\* object (what append returns) and the exception raised, if any
append(ns, p, child) ==
    IF ns[p].cls = "Command" /\ ~Command_append_ok(child)
    THEN [nodes |-> ns, id |-> 0, err |-> "AssertionError"]
    ELSE [nodes |-> Node_append(ns, p, child), id |-> Len(ns) + 1, err |-> ""]

\* Node.walk_up_to: the nearest node of class Cls from n upwards (n included);
\* 0 stands for RootReached
RECURSIVE walk_up_to(_, _, _)
walk_up_to(ns, n, Cls) ==
    IF ns[n].cls = Cls THEN n
    ELSE IF ns[n].cls = "Root" THEN 0
    ELSE walk_up_to(ns, ns[n].parent, Cls)

-----------------------------------------------------------------------------
(* Tree builder: TexParser.parse, one step per token *)

Tok(type, value) == [type |-> type, value |-> value]

Tokens ==
    {Tok("begin_environment", e) : e \in EnvNames}
    \cup {Tok("end_environment", e) : e \in EnvNames}
    \cup {Tok("command", c) : c \in CmdNames}
    \cup {Tok(t, "") : t \in {"open_oparam", "close_oparam", "open_curly",
                              "close_curly", "linebreak", "eols", "comment",
                              "whitespace"}}
    \cup {Tok("placeholder", "#1"), Tok("word", "x")}

\* outcome of one token: heap, cursor, exception
Out(ns, h, e) == [nodes |-> ns, here |-> h, err |-> e]

\* here = here.append(X): descend into the appended node
Descend(ns, h, child) ==
    LET r == append(ns, h, child)
    IN  Out(r.nodes, IF r.err = "" THEN r.id ELSE h, r.err)

\* here.append(X): the cursor stays
Attach(ns, h, child) ==
    LET r == append(ns, h, child) IN Out(r.nodes, h, r.err)

\* "if isinstance(here, Command): here = here.parent"
LeaveCommand(ns, h) == IF ns[h].cls = "Command" THEN ns[h].parent ELSE h

\* require_context(NodeClass): ParseError unless the cursor is a NodeClass
require_context(ns, h, Cls) == ns[h].cls = Cls

begin_environment(ns, h, v) == Descend(ns, h, NewNode("Environment", v))

end_environment(ns, h, v) ==
    LET env == walk_up_to(ns, h, "Environment")
    IN  IF env = 0 THEN Out(ns, h, "ParseError")
        \* the message of the mismatch error reads the undefined name tokebn
        ELSE IF ns[env].val # v THEN Out(ns, env, "NameError")
        ELSE Out(ns, ns[env].parent, "")

command(ns, h, v) == Descend(ns, LeaveCommand(ns, h), NewNode("Command", v))

open_oparam(ns, h) ==
    IF ~require_context(ns, h, "Command") THEN Out(ns, h, "ParseError")
    ELSE Descend(ns, h, NewNode("OptionalParameter", ""))

close_oparam(ns, h) ==
    LET h1 == LeaveCommand(ns, h)
    IN  IF ~require_context(ns, h1, "OptionalParameter")
        THEN Out(ns, h1, "ParseError")
        ELSE Out(ns, ns[h1].parent, "")

open_curly(ns, h) ==
    IF ns[h].cls = "Command"
    THEN Descend(ns, h, NewNode("RequiredParameter", ""))
    ELSE Attach(ns, h, NewNode("BeginScope", ""))

close_curly(ns, h) ==
    IF ns[h].cls = "Command"
    THEN LET up == walk_up_to(ns, ns[h].parent, "Command")
         IN  \* except RootReached: pass
             Out(ns, IF up = 0 THEN h ELSE up, "")
    ELSE IF ns[h].cls = "RequiredParameter"
    THEN Out(ns, walk_up_to(ns, h, "Command"), "")
    ELSE Attach(ns, h, NewNode("EndScope", ""))

linebreak(ns, h) == Attach(ns, h, NewNode("LineBreak", ""))

eols(ns, h) == Attach(ns, LeaveCommand(ns, h), NewNode("ParagraphBreak", ""))

comment(ns, h) == Out(ns, h, "")

whitespace(ns, h) == Attach(ns, LeaveCommand(ns, h), NewNode("Whitespace", ""))

placeholder(ns, h, v) == Attach(ns, h, NewNode("Placeholder", v))

word(ns, h, v) == Attach(ns, h, NewNode("Text", v))

\* match token.type
Handle(ns, h, t) ==
    CASE t.type = "begin_environment" -> begin_environment(ns, h, t.value)
      [] t.type = "end_environment"   -> end_environment(ns, h, t.value)
      [] t.type = "command"           -> command(ns, h, t.value)
      [] t.type = "open_oparam"       -> open_oparam(ns, h)
      [] t.type = "close_oparam"      -> close_oparam(ns, h)
      [] t.type = "open_curly"        -> open_curly(ns, h)
      [] t.type = "close_curly"       -> close_curly(ns, h)
      [] t.type = "linebreak"         -> linebreak(ns, h)
      [] t.type = "eols"              -> eols(ns, h)
      [] t.type = "comment"           -> comment(ns, h)
      [] t.type = "whitespace"        -> whitespace(ns, h)
      [] t.type = "placeholder"       -> placeholder(ns, h, t.value)
      [] t.type \in {"word", "text"}  -> word(ns, h, t.value)

\* no token has been handled
NoTok == Tok("", "")
\* no engine operation has run
NoOp == [op |-> "", def |-> 0, cmd |-> 0, err |-> "", msg |-> "", out |-> <<>>]

\* root = here = Root()
InitBuilder ==
    /\ nodes = <<NewNode("Root", "")>>
    /\ here = 1
    /\ status = "parsing"
    /\ err = ""
    /\ steps = 0
    /\ tok = NoTok
    /\ prev = 1
    /\ nodes0 = <<NewNode("Root", "")>>
    /\ defs = <<>>
    /\ res = NoOp
    /\ stack = <<>>

\* one iteration of "for token in self.lexer.tokenize(source)"
Token(t) ==
    /\ status = "parsing"
    /\ steps < MaxTokens
    /\ LET o == Handle(nodes, here, t)
       IN  /\ nodes' = o.nodes
           /\ here' = o.here
           /\ err' = o.err
           /\ status' = IF o.err = "" THEN "parsing" ELSE "error"
    /\ steps' = steps + 1
    /\ tok' = t
    /\ prev' = here
    /\ nodes0' = nodes
    /\ UNCHANGED <<defs, res, stack>>

\* the token stream is exhausted: the loop ends with the tree under root.
\* (The names of CmdNames are no definition keywords, so the trailing
\* find_user_commands / resolve_user_commands of parse neither raise nor
\* touch the built tree.)
EndOfInput ==
    /\ status = "parsing"
    /\ status' = "done"
    /\ tok' = NoTok
    /\ prev' = here
    /\ nodes0' = nodes
    /\ UNCHANGED <<nodes, here, err, steps, defs, res, stack>>

Next ==
    \/ \E t \in Tokens : Token(t)
    \/ EndOfInput

Spec == InitBuilder /\ [][Next]_vars

-----------------------------------------------------------------------------
(* Input documents of the engine: trees of nodes.py objects, written as     *)
(* shapes and laid out on the heap with the constructors and Node.append    *)

Shape(cls, val, kids) == [cls |-> cls, val |-> val, kids |-> kids]
Txt(s) == Shape("Text", s, <<>>)
PH(s) == Shape("Placeholder", s, <<>>)
WS == Shape("Whitespace", "", <<>>)
RP(kids) == Shape("RequiredParameter", "", kids)
OP(kids) == Shape("OptionalParameter", "", kids)
Cmd(name, params) == Shape("Command", name, params)
Env(name, kids) == Shape("Environment", name, kids)

RECURSIVE LayKids(_, _, _, _)
LayKids(ns, p, shapes, i) ==
    IF i > Len(shapes) THEN ns
    ELSE LET ns1 == Node_append(ns, p, NewNode(shapes[i].cls, shapes[i].val))
         IN  LayKids(LayKids(ns1, Len(ns1), shapes[i].kids, 1), p, shapes, i + 1)

\* the heap holding Root() with the given children; the Root is object 1
Lay(shapes) == LayKids(<<NewNode("Root", "")>>, 1, shapes, 1)

-----------------------------------------------------------------------------
(* Command parameters (nodes.py) *)

\* Command.optional_parameters / Command.required_parameters
RECURSIVE Select(_, _, _, _)
Select(ns, ks, i, cls) ==
    IF i > Len(ks) THEN <<>>
    ELSE (IF ns[ks[i]].cls = cls THEN <<ks[i]>> ELSE <<>>) \o Select(ns, ks, i + 1, cls)

optional_parameters(ns, c) == Select(ns, ns[c].kids, 1, "OptionalParameter")
required_parameters(ns, c) == Select(ns, ns[c].kids, 1, "RequiredParameter")

FlatClasses == {"BeginScope", "EndScope", "Whitespace", "Text", "Placeholder"}

-----------------------------------------------------------------------------
(* Macro registry and resolution engine (user_commands.py) *)

\* find_user_commands: the definitions found below n, or the exception raised.
\* "child.name" is read of every Command child that is reached; Command
\* objects carry .command and .parser_location (Command.__init__) and no
\* class of nodes.py defines name, so the read raises AttributeError.
RECURSIVE find_user_commands(_, _), FindIn(_, _, _)
find_user_commands(ns, n) == FindIn(ns, ns[n].kids, 1)
FindIn(ns, ks, i) ==
    IF i > Len(ks) THEN [err |-> "", cmds |-> <<>>]
    ELSE IF ns[ks[i]].cls = "Command"
    THEN \* line 36 reads child.name before anything else
         [err |-> "AttributeError", cmds |-> <<>>]
    ELSE LET r == find_user_commands(ns, ks[i])
         IN  IF r.err # "" THEN r
             ELSE LET rest == FindIn(ns, ks, i + 1)
                  IN  [err |-> rest.err, cmds |-> r.cmds \o rest.cmds]

\* "ret = self": the object itself is handed back instead of a new one
Node_copy_self(ns, n) == [nodes |-> ns, id |-> n]

\* Node.copy / Environment.copy / Command.copy / Text.copy: a new object of
\* the same class with the same constructor argument, no children yet and no
\* parent.  The heap afterwards and the new object.
Node_copy(ns, n) ==
    [nodes |-> Append(ns, NewNode(ns[n].cls, ns[n].val)), id |-> Len(ns) + 1]

\* process(node) = node.copy(newchildren(node.children)): heap, the copy,
\* the exception.  Text.copy never iterates the children it is given.
RECURSIVE process(_, _), newchildren(_, _, _, _)
process(ns, n) ==
    LET ns1 == Node_copy(ns, n).nodes
        new == Node_copy(ns, n).id
    IN  IF ns[n].cls \in {"Text", "Placeholder"}
        THEN [nodes |-> ns1, id |-> new, err |-> ""]
        ELSE LET r == newchildren(ns1, ns[n].kids, 1, <<>>)
             IN  IF r.err # "" THEN [nodes |-> r.nodes, id |-> 0, err |-> r.err]
                 ELSE [nodes |-> [r.nodes EXCEPT ![new].kids = r.out],
                       id |-> new, err |-> ""]

\* newchildren(children): the new nodes yielded for the children ks[i..]
newchildren(ns, ks, i, out) ==
    IF i > Len(ks) THEN [nodes |-> ns, out |-> out, err |-> ""]
    ELSE LET child == ks[i]
         IN  IF ns[child].cls = "Command"
             THEN \* line 58 reads child.name: AttributeError, as in find_user_commands
                  [nodes |-> ns, out |-> out, err |-> "AttributeError"]
             ELSE IF ns[child].cls \in {"BeginScope", "EndScope"}
             THEN \* child.copy() lacks the positional argument of Node.copy
                  [nodes |-> ns, out |-> out, err |-> "TypeError"]
             ELSE LET r == process(ns, child)
                  IN  IF r.err # "" THEN [nodes |-> r.nodes, out |-> out, err |-> r.err]
                      ELSE newchildren(r.nodes, ks, i + 1, Append(out, r.id))

\* resolve_user_commands(root, extra_user_commands): the registry is the
\* definitions found in the tree updated with extra; process reads child.name
\* before it looks a Command up in the registry
resolve_user_commands(ns, root, extra) ==
    LET found == find_user_commands(ns, root)
    IN  IF found.err # "" THEN [nodes |-> ns, id |-> 0, err |-> found.err]
        ELSE process(ns, root)

-----------------------------------------------------------------------------
(* Text of a node and the conversions applied to it *)

\* str(node) of a FlatNode: Text.__str__, Whitespace.__str__; the __str__ of
\* FlatNode itself (BeginScope, EndScope) calls NotImplemented, a TypeError
FlatStr(node) ==
    CASE node.cls \in {"Text", "Placeholder"} -> [s |-> node.val, err |-> ""]
      [] node.cls = "Whitespace" -> [s |-> " ", err |-> ""]
      [] OTHER -> [s |-> "", err |-> "TypeError"]

\* Node.text: str() of every FlatNode below n, in document order (Node.walk)
RECURSIVE text(_, _), TextOf(_, _, _)
text(ns, n) == TextOf(ns, ns[n].kids, 1)
TextOf(ns, ks, i) ==
    IF i > Len(ks) THEN [s |-> "", err |-> ""]
    ELSE LET k == ks[i]
             own == IF ns[k].cls \in FlatClasses THEN FlatStr(ns[k])
                    ELSE [s |-> "", err |-> ""]
         IN  IF own.err # "" THEN own
             ELSE LET below == text(ns, k)
                  IN  IF below.err # "" THEN below
                      ELSE LET rest == TextOf(ns, ks, i + 1)
                           IN  [s |-> own.s \o below.s \o rest.s, err |-> rest.err]

\* Node.__str__ / Text.__str__
str(ns, n) == IF ns[n].cls \in FlatClasses THEN FlatStr(ns[n]) ELSE text(ns, n)

Digits == <<"0", "1", "2", "3", "4", "5", "6", "7", "8", "9">>

\* the decimal numerals of one and two digits, with the blanks int() strips
Numerals(v) ==
    LET bare == IF v < 10 THEN {Digits[v + 1]}
                ELSE {Digits[(v \div 10) + 1] \o Digits[(v % 10) + 1]}
    IN  UNION {{d, " " \o d, d \o " ", " " \o d \o " "} : d \in bare}

\* int(s): the value, or -1 for ValueError
int(s) ==
    IF \E v \in 0..99 : s \in Numerals(v)
    THEN CHOOSE v \in 0..99 : s \in Numerals(v)
    ELSE -1

\* Placeholder.__init__: self.no = int(text[1:]), text being "#" and digits
PlaceholderNo(val) ==
    IF \E v \in 0..9 : val = "#" \o Digits[v + 1]
    THEN CHOOSE v \in 0..9 : val = "#" \o Digits[v + 1]
    ELSE -1

-----------------------------------------------------------------------------
(* Definition objects *)

Mandetory == [cls |-> "Mandetory", default |-> 0]
\* Optional.__init__(default): default is an object, or 0 for None
Optional(default) == [cls |-> "Optional", default |-> default]

Failed(ns, e) == [nodes |-> ns, obj |-> [cls |-> ""], err |-> e]

\* OldStyleNewCommand.__init__(command): the heap afterwards (the Text made
\* for optargdefault is a new object), the definition object, the exception
OldStyleNewCommand(ns, c) ==
    LET optparams == optional_parameters(ns, c)
        rparams == required_parameters(ns, c)
        first == IF Len(optparams) > 0 THEN str(ns, optparams[1])
                 ELSE [s |-> "0", err |-> ""]
        nargs == int(first.s)
        last == IF Len(optparams) > 1 THEN str(ns, optparams[Len(optparams)])
                ELSE [s |-> "", err |-> ""]
        wants_optional_parameter == Len(optparams) > 1
    IN  IF first.err # "" THEN Failed(ns, first.err)
        \* except ValueError: the message formats nargs, which was never bound
        ELSE IF nargs < 0 THEN Failed(ns, "UnboundLocalError")
        ELSE IF last.err # "" THEN Failed(ns, last.err)
        \* the error names location=self.command..., an attribute never set
        ELSE IF Len(rparams) # 2 THEN Failed(ns, "AttributeError")
        ELSE LET ns1 == IF wants_optional_parameter
                        THEN Append(ns, NewNode("Text", last.s)) ELSE ns
                 n == IF wants_optional_parameter THEN nargs - 1 ELSE nargs
                 argspecs == (IF wants_optional_parameter
                              THEN <<Optional(Len(ns1))>> ELSE <<>>)
                             \o [a \in 1..n |-> Mandetory]
             IN  [nodes |-> ns1,
                  obj |-> [cls |-> "OldStyleNewCommand", rparams |-> rparams,
                           argspecs |-> argspecs],
                  err |-> ""]

\* OldStyleNewCommand.definition: the children of the last required parameter
definition(ns, d) == ns[d.rparams[Len(d.rparams)]].kids

\* the characters an argspec text is made of, and the longest text taken apart
SpecAlphabet == {"m", "o", "O", "x", " "}
MaxSpecLen == 3

RECURSIVE Join(_)
Join(cs) == IF cs = <<>> THEN "" ELSE Head(cs) \o Join(Tail(cs))

Spellings == UNION {[1..n -> SpecAlphabet] : n \in 0..MaxSpecLen}
Spellable(s) == \E cs \in Spellings : Join(cs) = s

\* "for letter in letters": the characters of the string s, in order
Letters(s) == CHOOSE cs \in Spellings : Join(cs) = s

\* Optional.from_nodes(letter, nodes): begin = next(nodes) is the sibling
\* after the Text being scanned.  None of its paths returns: a StopIteration
\* inside the generator parse_argspecs surfaces as RuntimeError, the error for
\* a missing scope reads self in a classmethod (NameError), and begin.end /
\* begin.assemble are attributes no BeginScope has.
Optional_from_nodes(ns, ks, i) ==
    IF i + 1 > Len(ks) THEN "RuntimeError"
    ELSE IF ns[ks[i + 1]].cls # "BeginScope" THEN "NameError"
    ELSE "AttributeError"

\* the letters cs[j..] of the Text ks[i]: descriptors yielded, exception
RECURSIVE parse_letters(_, _, _, _, _)
parse_letters(ns, ks, i, cs, j) ==
    IF j > Len(cs) THEN [specs |-> <<>>, err |-> ""]
    ELSE IF cs[j] = "O"
    THEN [specs |-> <<>>, err |-> Optional_from_nodes(ns, ks, i)]
    ELSE LET rest == parse_letters(ns, ks, i, cs, j + 1)
             own == CASE cs[j] = "m" -> <<Mandetory>>
                      [] cs[j] = "o" -> <<Optional(0)>>
                      \* blanks pass; the if/elif chain has no else
                      [] OTHER -> <<>>
         IN  [specs |-> own \o rest.specs, err |-> rest.err]

\* XParseDocumentCommand.parse_argspecs(rargs), read to its end: the
\* descriptors yielded for the children ks[i..] of rargs and the exception
RECURSIVE parse_argspecs(_, _, _)
parse_argspecs(ns, ks, i) ==
    IF i > Len(ks) THEN [specs |-> <<>>, err |-> ""]
    ELSE IF ns[ks[i]].cls \notin {"Text", "Placeholder"}
    THEN parse_argspecs(ns, ks, i + 1)
    ELSE LET own == parse_letters(ns, ks, i, Letters(ns[ks[i]].val), 1)
         IN  IF own.err # "" THEN own
             ELSE LET rest == parse_argspecs(ns, ks, i + 1)
                  IN  [specs |-> own.specs \o rest.specs, err |-> rest.err]

\* XParseDocumentCommand.__init__(command, newcommand): self.name =
\* newcommand.name is read of a Command, which has no such attribute, before
\* the required parameters are looked at
XParseDocumentCommand(ns, c, newcommand) == Failed(ns, "AttributeError")

-----------------------------------------------------------------------------
(* UserCommand.call *)

\* a bound argument value: the generator param.children (single use), or the
\* default of an Optional descriptor (an object, or None)
Gen(items) == [kind |-> "generator", items |-> items, used |-> FALSE, obj |-> 0]
Dflt(obj) == [kind |-> IF obj = 0 THEN "None" ELSE "object", items |-> <<>>,
              used |-> FALSE, obj |-> obj]

\* every required parameter supplied is bound, in order, whatever the
\* descriptors say
argument_values_positional(ns, specs, i, rparams, oparams) ==
    [vals |-> [j \in 1..Len(rparams) |-> Gen(ns[rparams[j]].kids)], err |-> ""]

\* argument_values(): one value per descriptor; IndexError when
\* rparams.popleft() finds the queue empty
RECURSIVE argument_values(_, _, _, _, _)
argument_values(ns, specs, i, rparams, oparams) ==
    IF i > Len(specs) THEN [vals |-> <<>>, err |-> ""]
    ELSE IF specs[i].cls = "Mandetory"
    THEN IF rparams = <<>> THEN [vals |-> <<>>, err |-> "IndexError"]
         ELSE LET rest == argument_values(ns, specs, i + 1, Tail(rparams), oparams)
              IN  [vals |-> <<Gen(ns[Head(rparams)].kids)>> \o rest.vals,
                   err |-> rest.err]
    ELSE IF oparams # <<>>
    THEN LET rest == argument_values(ns, specs, i + 1, rparams, Tail(oparams))
         IN  [vals |-> <<Gen(ns[Head(oparams)].kids)>> \o rest.vals, err |-> rest.err]
    ELSE LET rest == argument_values(ns, specs, i + 1, rparams, oparams)
         IN  [vals |-> <<Dflt(specs[i].default)>> \o rest.vals, err |-> rest.err]

\* parameters[i] of a tuple of length len: the 1-based position, 0 for IndexError
PyIndex(len, i) ==
    IF 0 <= i /\ i < len THEN i + 1
    ELSE IF -len <= i /\ i < 0 THEN len + i + 1
    ELSE 0

\* walk(nodes): the nodes yielded for ks[i..], threading the heap and the
\* state of the generators in parameters
RECURSIVE walk(_, _, _, _, _)
walk(ns, ps, ks, i, out) ==
    IF i > Len(ks) THEN [nodes |-> ns, ps |-> ps, out |-> out, err |-> ""]
    ELSE LET node == ks[i]
         IN  IF ns[node].cls = "Placeholder"
             THEN LET at == PyIndex(Len(ps), PlaceholderNo(ns[node].val) - 1)
                  IN  IF at = 0
                      THEN [nodes |-> ns, ps |-> ps, out |-> out, err |-> "IndexError"]
                      ELSE IF ps[at].kind # "generator"
                      THEN \* yield from None / yield from a Text object
                           [nodes |-> ns, ps |-> ps, out |-> out, err |-> "TypeError"]
                      ELSE walk(ns, [ps EXCEPT ![at].used = TRUE], ks, i + 1,
                                out \o (IF ps[at].used THEN <<>> ELSE ps[at].items))
             ELSE LET ns1 == Node_copy(ns, node).nodes
                      new == Node_copy(ns, node).id
                      r == IF ns[node].cls = "Text"
                           THEN [nodes |-> ns1, ps |-> ps, out |-> <<>>, err |-> ""]
                           ELSE walk(ns1, ps, ns[node].kids, 1, <<>>)
                  IN  IF r.err # ""
                      THEN [nodes |-> r.nodes, ps |-> r.ps, out |-> out, err |-> r.err]
                      ELSE walk([r.nodes EXCEPT ![new].kids = r.out], r.ps, ks, i + 1,
                                Append(out, new))

\* list(usercmd.call(command)): heap, the nodes yielded, the exception and
\* the macro name its message carries
call(ns, d, c) ==
    LET args == argument_values(ns, d.argspecs, 1, required_parameters(ns, c),
                                optional_parameters(ns, c))
    IN  IF args.err # ""
        THEN [nodes |-> ns, out |-> <<>>, err |-> "UserCommandParseError",
              msg |-> ns[c].val]
        ELSE LET r == walk(ns, args.vals, definition(ns, d), 1, <<>>)
             IN  [nodes |-> r.nodes, out |-> IF r.err = "" THEN r.out ELSE <<>>,
                  err |-> r.err, msg |-> ""]

-----------------------------------------------------------------------------
(* The engine as a state machine: a host holding a tree constructs          *)
(* definition objects, calls them and resolves the tree                     *)

MaxOps == 2
MaxDefs == 1
MaxCallParams == 2

DefKeywords == {"newcommand", "renewcommand"}

OptArgs == <<"Alice", "Carol", "Eve">>
ReqArgs == <<"Bob", "World", "Dan">>

Bodies ==
    { <<Txt("Hello"), WS, PH("#1"), Txt("!")>>,
      <<Txt("Hi"), WS, PH("#1"), Txt(","), WS, PH("#2")>>,
      <<Txt("x")>>,
      <<PH("#1"), Cmd("b", <<RP(<<PH("#1")>>)>>)>>,
      <<Txt("["), PH("#0"), Txt("]")>> }

\* the optional parameters of a definition: [nargs] and [optargdefault]
DefOpts ==
    { <<>>, <<"0">>, <<"1">>, <<"2">>, <<"x">>,
      <<"0", "Friend">>, <<"1", "Friend">>, <<"2", "Friend">> }

\* \newcommand{\greet}[nargs][optargdefault]{body}
Def(kw, opts, body) ==
    Cmd(kw, <<RP(<<Cmd("greet", <<>>)>>)>>
            \o [i \in 1..Len(opts) |-> OP(<<Txt(opts[i])>>)]
            \o <<RP(body)>>)

\* \newcommand{\greet}[opts]..{rest[1]}{rest[2]}..: a definition command with
\* 1 + Len(rest) required parameters
DefR(kw, opts, rest) ==
    Cmd(kw, <<RP(<<Cmd("greet", <<>>)>>)>>
            \o [i \in 1..Len(opts) |-> OP(<<Txt(opts[i])>>)]
            \o [i \in 1..Len(rest) |-> RP(rest[i])])

\* \newcommand{\name}{body}
DefOf(kw, name, body) == Cmd(kw, <<RP(<<Cmd(name, <<>>)>>), RP(body)>>)

\* \greet[..]..{..}.. with no optional and nr required parameters
Invocation(no, nr) ==
    Cmd("greet", [i \in 1..no |-> OP(<<Txt(OptArgs[i])>>)]
                 \o [i \in 1..nr |-> RP(<<Txt(ReqArgs[i])>>)])

\* the children of an argspec parameter
ArgSpecs ==
    { <<Txt("m")>>, <<Txt("mm")>>, <<Txt("o m")>>, <<Txt("m"), WS, Txt("o")>>,
      <<Txt("x")>>, <<Txt("mxo")>>, <<>>,
      <<Txt("O")>>, <<Txt("O"), Txt("x")>>,
      <<Txt("mO"), Shape("BeginScope", "", <<>>), Txt("x"), Shape("EndScope", "", <<>>)>> }

\* nodes of documents without commands
Plain ==
    { Txt("x"), WS, PH("#1"), Shape("LineBreak", "", <<>>),
      Shape("BeginScope", "", <<>>), Shape("EndScope", "", <<>>),
      Env("itemize", <<>>), Env("itemize", <<Txt("y"), WS>>),
      Env("itemize", <<Env("enumerate", <<Txt("y")>>)>>) }

Docs ==
    \* one definition and one invocation
    { <<Def("newcommand", o, b), Invocation(no, nr)>> :
        o \in DefOpts, b \in Bodies, no \in 0..MaxCallParams, nr \in 0..MaxCallParams }
    \* a definition, its redefinition and an invocation
    \cup { <<Def("newcommand", <<"1">>, <<Txt("old"), PH("#1")>>),
             Def("renewcommand", <<"1">>, <<Txt("new"), PH("#1")>>),
             Invocation(0, 1)>> }
    \* an xparse-style definition with an "o" argument, and invocations
    \cup { <<Cmd("NewDocumentCommand", <<>>),
             Cmd("box", <<RP(<<Txt("m o")>>),
                          RP(<<Txt("["), PH("#1"), Txt("|"), PH("#2"), Txt("]")>>)>>),
             Cmd("box", <<RP(<<Txt("x")>>)>> \o [i \in 1..no |-> OP(<<Txt("y")>>)])>> :
           no \in 0..1 }
    \* definition commands with one and with three required parameters
    \cup { <<DefR("newcommand", o, r)>> :
             o \in {<<>>, <<"1">>, <<"x">>},
             r \in {<<>>, << <<Txt("x")>>, <<Txt("y")>> >>} }
    \* a macro whose body invokes another macro, and its invocation
    \cup { <<DefOf("newcommand", "a", <<Cmd("b", <<>>)>>),
             DefOf("newcommand", "b", <<Txt("x")>>),
             Cmd("a", <<>>)>> }
    \* a macro whose body invokes the macro itself, and two that invoke each
    \* other
    \cup { <<DefOf("newcommand", "a", <<Txt("x"), Cmd("a", <<>>)>>), Cmd("a", <<>>)>>,
           <<DefOf("newcommand", "a", <<Cmd("b", <<>>)>>),
             DefOf("newcommand", "b", <<Cmd("a", <<>>)>>),
             Cmd("b", <<>>)>> }
    \* one definition and two equal invocations
    \cup { <<Def("newcommand", <<"1">>, b), Invocation(0, 1), Invocation(0, 1)>> :
             b \in Bodies }
    \* definitions inside a parameter of a Command and inside an Environment
    \cup { <<Cmd("a", <<RP(<<Def("newcommand", <<"1">>, <<Txt("x")>>)>>)>>)>>,
           <<Env("itemize", <<Txt("y"), Def("newcommand", <<"1">>, <<Txt("x")>>)>>)>>,
           <<Env("itemize", <<Txt("y")>>),
             Cmd("a", <<OP(<<Def("renewcommand", <<>>, <<Txt("x")>>)>>)>>)>> }
    \* declarations among siblings that are no commands
    \cup { <<Txt("x"), Def("newcommand", <<"1">>, <<Txt("y")>>), WS, Txt("z")>>,
           <<Cmd("NewDocumentCommand", <<>>),
             Cmd("box", <<RP(<<Txt("m")>>), RP(<<PH("#1")>>)>>),
             Txt("x"), WS>> }
    \* xparse-style definitions with other argspecs
    \cup { <<Cmd("NewDocumentCommand", <<>>),
             Cmd("box", <<RP(spec), RP(<<PH("#1")>>)>>)>> : spec \in ArgSpecs }
    \* documents without commands
    \cup { <<Txt("x"), WS, Env("itemize", <<Txt("y"), PH("#1")>>)>>,
           <<Shape("BeginScope", "", <<>>), Txt("x"), Shape("EndScope", "", <<>>)>>,
           <<Env("itemize", <<Shape("LineBreak", "", <<>>)>>), Shape("ParagraphBreak", "", <<>>)>>,
           <<>> }
    \cup { [i \in 1..n |-> items[i]] : n \in {1, 2}, items \in [1..2 -> Plain] }

\* the host holds the tree of one document; here is its Root
InitEngine ==
    /\ \E d \in Docs : nodes = Lay(d)
    /\ here = 1
    /\ status = "ready"
    /\ err = ""
    /\ steps = 0
    /\ tok = NoTok
    /\ prev = 1
    /\ nodes0 = nodes
    /\ defs = <<>>
    /\ res = NoOp
    /\ stack = <<>>

Commands(ns) == {n \in 1..Len(ns) : ns[n].cls = "Command"}

\* d = OldStyleNewCommand(c), c a \newcommand or \renewcommand of the tree
Construct(c) ==
    /\ status = "ready"
    /\ steps < MaxOps
    /\ Len(defs) < MaxDefs
    /\ c \in Commands(nodes) /\ nodes[c].val \in DefKeywords
    /\ LET r == OldStyleNewCommand(nodes, c)
       IN  /\ nodes' = r.nodes
           /\ defs' = IF r.err = "" THEN Append(defs, r.obj) ELSE defs
           /\ err' = r.err
           /\ res' = [NoOp EXCEPT !.op = "construct", !.cmd = c, !.err = r.err,
                                  !.def = IF r.err = "" THEN Len(defs) + 1 ELSE 0]
    /\ steps' = steps + 1
    /\ nodes0' = nodes
    /\ UNCHANGED <<here, status, tok, prev, stack>>

\* list(defs[d].call(c)), c a Command of the tree that is no definition
Call(d, c) ==
    /\ status = "ready"
    /\ steps < MaxOps
    /\ d \in 1..Len(defs)
    /\ c \in Commands(nodes) /\ nodes[c].val \notin DefKeywords
    /\ LET r == call(nodes, defs[d], c)
       IN  /\ nodes' = r.nodes
           /\ err' = r.err
           /\ res' = [op |-> "call", def |-> d, cmd |-> c, err |-> r.err,
                      msg |-> r.msg, out |-> r.out]
    /\ steps' = steps + 1
    /\ nodes0' = nodes
    /\ UNCHANGED <<here, status, tok, prev, defs, stack>>

\* XParseDocumentCommand(c, n): c a \NewDocumentCommand of the tree, n the
\* sibling after it
ConstructXParse(c) ==
    /\ status = "ready"
    /\ steps < MaxOps
    /\ Len(defs) < MaxDefs
    /\ c \in Commands(nodes) /\ nodes[c].val = "NewDocumentCommand"
    /\ \E i \in 1..(Len(nodes[nodes[c].parent].kids) - 1) :
          /\ nodes[nodes[c].parent].kids[i] = c
          /\ LET r == XParseDocumentCommand(nodes, c, nodes[nodes[c].parent].kids[i + 1])
             IN  /\ nodes' = r.nodes
                 /\ defs' = IF r.err = "" THEN Append(defs, r.obj) ELSE defs
                 /\ err' = r.err
                 /\ res' = [NoOp EXCEPT !.op = "construct_xparse", !.cmd = c,
                                        !.err = r.err,
                                        !.def = IF r.err = "" THEN Len(defs) + 1 ELSE 0]
    /\ steps' = steps + 1
    /\ nodes0' = nodes
    /\ UNCHANGED <<here, status, tok, prev, stack>>

\* list(parse_argspecs(rargs)), rargs a RequiredParameter of the tree
ParseArgspecs(rargs) ==
    /\ status = "ready"
    /\ steps < MaxOps
    /\ rargs \in 1..Len(nodes) /\ nodes[rargs].cls = "RequiredParameter"
    /\ \A i \in 1..Len(nodes[rargs].kids) :
          nodes[nodes[rargs].kids[i]].cls \in {"Text", "Placeholder"}
              => Spellable(nodes[nodes[rargs].kids[i]].val)
    /\ LET r == parse_argspecs(nodes, nodes[rargs].kids, 1)
       IN  /\ err' = r.err
           /\ res' = [op |-> "parse_argspecs", def |-> 0, cmd |-> rargs, err |-> r.err,
                      msg |-> "", out |-> IF r.err = "" THEN r.specs ELSE <<>>]
    /\ steps' = steps + 1
    /\ nodes0' = nodes
    /\ UNCHANGED <<nodes, here, status, tok, prev, defs, stack>>

\* list(find_user_commands(root))
FindUserCommands ==
    /\ status = "ready"
    /\ steps < MaxOps
    /\ LET r == find_user_commands(nodes, here)
       IN  /\ err' = r.err
           /\ res' = [op |-> "find", def |-> 0, cmd |-> 0, err |-> r.err,
                      msg |-> "", out |-> r.cmds]
    /\ steps' = steps + 1
    /\ nodes0' = nodes
    /\ UNCHANGED <<nodes, here, status, tok, prev, defs, stack>>

\* resolve_user_commands(root, extra): extra is {} (d = 0) or maps the macro
\* name to the definition object defs[d]
Resolve(d) ==
    /\ status = "ready"
    /\ steps < MaxOps
    /\ d \in 0..Len(defs)
    /\ LET r == resolve_user_commands(nodes, here, d)
       IN  /\ nodes' = r.nodes
           /\ err' = r.err
           /\ res' = [op |-> "resolve", def |-> d, cmd |-> 0, err |-> r.err,
                      msg |-> "", out |-> IF r.err = "" THEN <<r.id>> ELSE <<>>]
    /\ steps' = steps + 1
    /\ nodes0' = nodes
    /\ UNCHANGED <<here, status, tok, prev, defs, stack>>

NextEngine ==
    \/ \E c \in 1..Len(nodes) : Construct(c)
    \/ \E d \in 1..MaxDefs, c \in 1..Len(nodes) : Call(d, c)
    \/ \E d \in 0..MaxDefs : Resolve(d)
    \/ \E c \in 1..Len(nodes) : ConstructXParse(c)
    \/ \E rargs \in 1..Len(nodes) : ParseArgspecs(rargs)
    \/ FindUserCommands

SpecEngine == InitEngine /\ [][NextEngine]_vars

-----------------------------------------------------------------------------
(* resolve_user_commands in steps: one step per child that newchildren      *)
(* takes from a children list and one per return of process.  A call runs   *)
(* to its end in one thread, so every enabled step is eventually taken.     *)

\* the largest heap explored
MaxHeap == 20

\* process(node) in progress: node.copy has made the object new, and
\* list(children) has taken the children before position i and holds the
\* nodes yielded for them
Frame(node, new) == [node |-> node, new |-> new, i |-> 1, out |-> <<>>]

\* the frame does not move on to the next child
Yielded_again(f, new) == [f EXCEPT !.out = Append(@, new)]

\* "yield ..." inside "for child in children": the node joins the list under
\* construction and the loop moves to the next child
Yielded(f, new) == [f EXCEPT !.out = Append(@, new), !.i = @ + 1]

Top == stack[Len(stack)]
\* the child the innermost newchildren is looking at, 0 when its loop is over
Child ==
    IF Top.i > Len(nodes[Top.node].kids) THEN 0 ELSE nodes[Top.node].kids[Top.i]

Raise(e) ==
    /\ status' = "raised"
    /\ err' = e
    /\ stack' = <<>>
    /\ res' = [op |-> "resolve", def |-> 0, cmd |-> 0, err |-> e, msg |-> "",
               out |-> <<>>]

\* resolve_user_commands(root): the registry is built, then process(root)
\* begins with root.copy(...)
ResolveBegin ==
    /\ status = "ready"
    /\ nodes0' = nodes
    /\ LET found == find_user_commands(nodes, here)
       IN  IF found.err # ""
           THEN Raise(found.err) /\ UNCHANGED nodes
           ELSE /\ nodes' = Node_copy(nodes, here).nodes
                /\ stack' = <<Frame(here, Node_copy(nodes, here).id)>>
                /\ status' = "resolving"
                /\ UNCHANGED <<err, res>>
    /\ UNCHANGED <<here, steps, tok, prev, defs>>

\* the child is a Text or a Placeholder: Text.copy ignores the children
ResolveLeaf ==
    /\ status = "resolving"
    /\ Len(nodes) < MaxHeap
    /\ Child # 0 /\ nodes[Child].cls \in {"Text", "Placeholder"}
    /\ nodes' = Node_copy(nodes, Child).nodes
    /\ stack' = [stack EXCEPT ![Len(stack)] = Yielded(@, Node_copy(nodes, Child).id)]
    /\ UNCHANGED <<here, status, err, steps, tok, prev, nodes0, defs, res>>

\* the child is any other node that is no Command and no scope node:
\* process(child) begins
ResolveDescend ==
    /\ status = "resolving"
    /\ Len(nodes) < MaxHeap
    /\ Child # 0
    /\ nodes[Child].cls \notin {"Text", "Placeholder", "Command", "BeginScope", "EndScope"}
    /\ nodes' = Node_copy(nodes, Child).nodes
    /\ stack' = Append(stack, Frame(Child, Node_copy(nodes, Child).id))
    /\ UNCHANGED <<here, status, err, steps, tok, prev, nodes0, defs, res>>

\* the child is a Command (child.name) or a scope node (child.copy())
ResolveRaise ==
    /\ status = "resolving"
    /\ Child # 0 /\ nodes[Child].cls \in {"Command", "BeginScope", "EndScope"}
    /\ Raise(IF nodes[Child].cls = "Command" THEN "AttributeError" ELSE "TypeError")
    /\ UNCHANGED <<nodes, here, steps, tok, prev, nodes0, defs>>

\* the children are used up: copy stores the list and process returns, to
\* the newchildren that called it or to resolve_user_commands
ResolveReturn ==
    /\ status = "resolving"
    /\ Child = 0
    /\ nodes' = [nodes EXCEPT ![Top.new].kids = Top.out]
    /\ IF Len(stack) = 1
       THEN /\ status' = "returned"
            /\ stack' = <<>>
            /\ res' = [op |-> "resolve", def |-> 0, cmd |-> 0, err |-> "", msg |-> "",
                       out |-> <<Top.new>>]
       ELSE /\ stack' = [SubSeq(stack, 1, Len(stack) - 1)
                            EXCEPT ![Len(stack) - 1] = Yielded(@, Top.new)]
            /\ UNCHANGED <<status, res>>
    /\ UNCHANGED <<here, err, steps, tok, prev, nodes0, defs>>

NextResolve ==
    \/ ResolveBegin
    \/ ResolveLeaf
    \/ ResolveDescend
    \/ ResolveRaise
    \/ ResolveReturn

SpecResolve == InitEngine /\ [][NextResolve]_vars /\ WF_vars(NextResolve)

-----------------------------------------------------------------------------
(* Claims about the tree builder *)

Ids(ns) == 1..Len(ns)
OfClass(ns, cls) == {n \in Ids(ns) : ns[n].cls = cls}

\* number of BeginScope children of n that no later EndScope child closes
RECURSIVE Unmatched(_, _, _, _)
Unmatched(ns, ks, i, open) ==
    IF i > Len(ks) THEN open
    ELSE IF ns[ks[i]].cls = "BeginScope" THEN Unmatched(ns, ks, i + 1, open + 1)
    ELSE IF ns[ks[i]].cls = "EndScope" /\ open > 0 THEN Unmatched(ns, ks, i + 1, open - 1)
    ELSE Unmatched(ns, ks, i + 1, open)

OpenScopes(ns, n) == Unmatched(ns, ns[n].kids, 1, 0)

\* b and e are linked to each other and are children of the same node
Paired(ns, b, e) ==
    /\ ns[b].link = e
    /\ ns[e].link = b
    /\ ns[b].parent = ns[e].parent

\* C1: in the tree of every accepted token sequence there are as many
\* BeginScope as EndScope nodes, and every BeginScope is linked with exactly
\* one EndScope of the same children list that links back, and vice versa.
C1_ScopesPaired ==
    status = "done" =>
        /\ Cardinality(OfClass(nodes, "BeginScope")) = Cardinality(OfClass(nodes, "EndScope"))
        /\ \A b \in OfClass(nodes, "BeginScope") :
               \E e \in OfClass(nodes, "EndScope") : Paired(nodes, b, e)
        /\ \A e \in OfClass(nodes, "EndScope") :
               \E b \in OfClass(nodes, "BeginScope") : Paired(nodes, b, e)

\* C2: an end-environment(name) token fails with a ParseError when no
\* Environment encloses the cursor or the nearest one has another name, and
\* otherwise moves the cursor to the parent of that Environment.
C2_EndEnvironment ==
    tok.type = "end_environment" =>
        LET env == walk_up_to(nodes0, prev, "Environment")
        IN  IF env = 0 \/ nodes0[env].val # tok.value
            THEN status = "error" /\ err = "ParseError"
            ELSE status = "parsing" /\ err = "" /\ here = nodes0[env].parent

\* C10: a close-curly token arriving with no scope open fails with a
\* ParseError when the cursor is a Command without an enclosing Command, and
\* when the cursor is neither a Command nor a RequiredParameter.
C10_StrayCloseCurlyFails ==
    (/\ tok.type = "close_curly"
     /\ OpenScopes(nodes0, prev) = 0
     /\ \/ /\ nodes0[prev].cls = "Command"
           /\ walk_up_to(nodes0, nodes0[prev].parent, "Command") = 0
        \/ nodes0[prev].cls \notin {"Command", "RequiredParameter"})
    => (status = "error" /\ err = "ParseError" /\ nodes = nodes0)

\* n has two neighbouring children of class cls
Adjacent(ns, n, cls) ==
    \E i \in 1..(Len(ns[n].kids) - 1) :
        ns[ns[n].kids[i]].cls = cls /\ ns[ns[n].kids[i + 1]].cls = cls

\* the last child of n is of class cls
LastIs(ns, n, cls) ==
    ns[n].kids # <<>> /\ ns[ns[n].kids[Len(ns[n].kids)]].cls = cls

\* C13: after any accepted token sequence no node has two adjacent
\* Whitespace children or two adjacent ParagraphBreak children: a whitespace
\* token arriving when the last child of the cursor (after ascending out of
\* an open Command) is a Whitespace appends nothing, and likewise a
\* blank-line token and ParagraphBreak.
C13_WhitespaceCoalesced ==
    /\ status # "error" =>
           \A n \in Ids(nodes) : /\ ~Adjacent(nodes, n, "Whitespace")
                                  /\ ~Adjacent(nodes, n, "ParagraphBreak")
    /\ (tok.type = "whitespace"
            /\ LastIs(nodes0, LeaveCommand(nodes0, prev), "Whitespace"))
           => nodes = nodes0
    /\ (tok.type = "eols"
            /\ LastIs(nodes0, LeaveCommand(nodes0, prev), "ParagraphBreak"))
           => nodes = nodes0

\* the concatenation, depth first and left to right, of the content of the
\* Text nodes (Placeholder is a Text) and one space per Whitespace below ks
RECURSIVE Flattened(_, _, _)
Flattened(ns, ks, i) ==
    IF i > Len(ks) THEN ""
    ELSE (CASE ns[ks[i]].cls \in {"Text", "Placeholder"} -> ns[ks[i]].val
            [] ns[ks[i]].cls = "Whitespace" -> " "
            [] OTHER -> "")
         \o Flattened(ns, ns[ks[i]].kids, 1) \o Flattened(ns, ks, i + 1)

\* C14: the text of a node is defined for every tree the builder produces
\* and is the depth-first, left-to-right concatenation of the content of
\* each Text node and one space for each Whitespace node; BeginScope,
\* EndScope, LineBreak, ParagraphBreak and containers contribute nothing and
\* never make it fail.
C14_FlatteningIsTotal ==
    status = "done" =>
        /\ text(nodes, 1).err = ""
        /\ text(nodes, 1).s = Flattened(nodes, nodes[1].kids, 1)

\* C15: in every state the builder reaches the children of every Command
\* are OptionalParameter and RequiredParameter nodes only.
C15_CommandChildrenAreParameters ==
    \A c \in OfClass(nodes, "Command") :
        \A i \in 1..Len(nodes[c].kids) : nodes[nodes[c].kids[i]].cls \in ParamClasses

\* a token that makes no parameter arrived at a Command that has one
C15_Witness ==
    /\ tok.type \in {"linebreak", "placeholder", "word"}
    /\ nodes[prev].cls = "Command"
    /\ nodes[prev].kids # <<>>
    /\ err = "AssertionError"

\* C20: a close-curly token closes the innermost open scope first: when a
\* BeginScope of the cursor node is not yet matched the token appends the
\* EndScope and the cursor stays, also when the cursor is a
\* RequiredParameter; a RequiredParameter is closed (the cursor moves to its
\* Command) only by a close-curly arriving with no scope open in it.
C20_CloseCurlyClosesInnermostScope ==
    tok.type = "close_curly" =>
        IF OpenScopes(nodes0, prev) > 0
        THEN /\ here = prev
             /\ Len(nodes) = Len(nodes0) + 1
             /\ nodes[Len(nodes)].cls = "EndScope"
             /\ nodes[Len(nodes)].parent = prev
        ELSE nodes0[prev].cls = "RequiredParameter"
                 => here = walk_up_to(nodes0, prev, "Command")

\* C21: a word, text or linebreak token arriving while the cursor is a
\* Command closes the Command first (the cursor moves to its parent) and then
\* appends the Text or LineBreak to that parent; the parse does not fail.
C21_TextClosesCommand ==
    (tok.type \in {"word", "text", "linebreak"} /\ nodes0[prev].cls = "Command")
    => /\ status = "parsing"
       /\ here = nodes0[prev].parent
       /\ Len(nodes) = Len(nodes0) + 1
       /\ nodes[Len(nodes)].cls = (IF tok.type = "linebreak" THEN "LineBreak" ELSE "Text")
       /\ nodes[Len(nodes)].parent = here
       /\ LastIs(nodes, here, nodes[Len(nodes)].cls)

\* C22: a begin-environment or end-environment token arriving while a
\* BeginScope of the cursor node is still unmatched makes the parse fail
\* with a ParseError.
C22_EnvironmentTokenInOpenScopeFails ==
    (tok.type \in {"begin_environment", "end_environment"}
        /\ OpenScopes(nodes0, prev) > 0)
    => (status = "error" /\ err = "ParseError")

-----------------------------------------------------------------------------
(* Claims about definitions, calls and resolution *)

NOpt(ns, c) == Len(optional_parameters(ns, c))
NReq(ns, c) == Len(required_parameters(ns, c))

\* the children of the root, in document order
TopLevel(ns) == ns[1].kids

\* the \newcommand a definition object was constructed from
DefCommand(ns, d) == ns[d.rparams[1]].parent

\* the macro name a definition command declares: the Command in its first
\* required parameter
DeclaredName(ns, dc) == ns[ns[required_parameters(ns, dc)[1]].kids[1]].val

\* the body a definition command carries: the children of its last required
\* parameter
BodyOf(ns, dc) ==
    LET rps == required_parameters(ns, dc) IN ns[rps[Len(rps)]].kids

\* the Placeholder texts occurring anywhere in or below the nodes ks
RECURSIVE PlaceholdersIn(_, _)
PlaceholdersIn(ns, ks) ==
    UNION { (IF ns[ks[i]].cls = "Placeholder" THEN {ns[ks[i]].val} ELSE {})
            \cup PlaceholdersIn(ns, ns[ks[i]].kids) : i \in 1..Len(ks) }

\* the flattened text of the body ks with Placeholder(N) standing for args[N]
RECURSIVE Expected(_, _, _, _)
Expected(ns, ks, i, args) ==
    IF i > Len(ks) THEN ""
    ELSE LET k == ks[i]
             own == CASE ns[k].cls = "Placeholder" -> args[PlaceholderNo(ns[k].val)]
                      [] ns[k].cls = "Text" -> ns[k].val
                      [] ns[k].cls = "Whitespace" -> " "
                      [] OTHER -> ""
         IN  own \o Expected(ns, ns[k].kids, 1, args) \o Expected(ns, ks, i + 1, args)

\* the flattened texts of the parameters ps
Texts(ns, ps) == [i \in 1..Len(ps) |-> text(ns, ps[i]).s]

\* the flattened text of the nodes the last operation produced
OutText == TextOf(nodes, res.out, 1)

\* the last operation called an old-style definition made without [nargs]
\* whose body holds Placeholder(1) and no other, with one required parameter
C3_Case ==
    /\ res.op = "call"
    /\ NOpt(nodes0, DefCommand(nodes0, defs[res.def])) = 0
    /\ PlaceholdersIn(nodes0, definition(nodes0, defs[res.def])) = {"#1"}
    /\ NReq(nodes0, res.cmd) = 1

C4_OptionalDefault ==
    LET dc == DefCommand(nodes0, defs[res.def])
        dopts == optional_parameters(nodes0, dc)
        n == int(text(nodes0, dopts[1]).s)
        first == IF NOpt(nodes0, res.cmd) = 0
                 THEN text(nodes0, dopts[2]).s
                 ELSE text(nodes0, optional_parameters(nodes0, res.cmd)[1]).s
        args == <<first>> \o Texts(nodes0, required_parameters(nodes0, res.cmd))
    IN  (/\ res.op = "call"
         /\ Len(dopts) = 2
         /\ n >= 1
         /\ NReq(nodes0, res.cmd) = n - 1
         /\ NOpt(nodes0, res.cmd) <= 1
         /\ \A ph \in PlaceholdersIn(nodes0, BodyOf(nodes0, dc)) :
                PlaceholderNo(ph) \in 1..n)
        => /\ res.err = ""
           /\ OutText.s = Expected(nodes0, BodyOf(nodes0, dc), 1, args)

\* C5: an xparse-style macro with an "o" argument resolves with the
\* placeholder of that argument replaced by nothing when the invocation has
\* no optional parameter, and by the optional parameter's children when it
\* has one.
C5_XParseOptionalWithoutDefault ==
    (/\ res.op = "resolve"
     /\ TopLevel(nodes0) # <<>>
     /\ nodes0[TopLevel(nodes0)[1]].val = "NewDocumentCommand")
    => LET decl == TopLevel(nodes0)[2]
           inv == TopLevel(nodes0)[3]
           opt == IF NOpt(nodes0, inv) = 0 THEN <<"">>
                  ELSE Texts(nodes0, optional_parameters(nodes0, inv))
       IN  /\ res.err = ""
           /\ OutText.s = Expected(nodes0, BodyOf(nodes0, decl), 1,
                                   Texts(nodes0, required_parameters(nodes0, inv)) \o opt)

\* the definition commands at the top level of the document, in order
RECURSIVE DefsIn(_, _, _)
DefsIn(ns, ks, i) ==
    IF i > Len(ks) THEN <<>>
    ELSE (IF ns[ks[i]].cls = "Command" /\ ns[ks[i]].val \in DefKeywords
          THEN <<ks[i]>> ELSE <<>>) \o DefsIn(ns, ks, i + 1)

\* C6: with several definitions of one macro name in the tree, invocations
\* expand with the definition that comes last in the document, and an entry
\* of the externally supplied mapping overrides the definitions of the tree.
C6_LastDefinitionWins ==
    LET ds == DefsIn(nodes0, TopLevel(nodes0), 1)
        inv == TopLevel(nodes0)[Len(TopLevel(nodes0))]
        body == IF res.def # 0 THEN definition(nodes0, defs[res.def])
                ELSE BodyOf(nodes0, ds[Len(ds)])
    IN  (res.op = "resolve" /\ Len(ds) >= 2)
        => /\ res.err = ""
           /\ OutText.s = Expected(nodes0, body, 1,
                                   Texts(nodes0, required_parameters(nodes0, inv)))

\* the number of Mandatory descriptors of a well-formed old-style definition
\* command: nargs, less one when an optargdefault is given
MandatoryCount(ns, dc) ==
    LET dopts == optional_parameters(ns, dc)
        n == IF dopts = <<>> THEN 0 ELSE int(text(ns, dopts[1]).s)
    IN  IF Len(dopts) > 1 THEN n - 1 ELSE n

\* the document holds one well-formed definition and, after it, an
\* invocation of the macro with fewer required parameters than the definition
\* has Mandatory descriptors
TooFewInDocument(ns) ==
    /\ Len(TopLevel(ns)) = 2
    /\ LET dc == TopLevel(ns)[1]
           inv == TopLevel(ns)[2]
       IN  /\ ns[dc].val \in DefKeywords
           /\ NOpt(ns, dc) > 0 => int(text(ns, optional_parameters(ns, dc)[1]).s) >= 0
           /\ ns[inv].val = DeclaredName(ns, dc)
           /\ NReq(ns, inv) < MandatoryCount(ns, dc)

\* C7: invoking a registered macro with fewer required parameters than it
\* has Mandatory descriptors fails with a UserCommandParseError whose message
\* names the macro, and nothing is returned.
C7_TooFewParametersIsCallError ==
    LET inv == IF res.op = "call" THEN res.cmd ELSE TopLevel(nodes0)[2]
    IN  (\/ /\ res.op = "call"
            /\ NReq(nodes0, res.cmd)
                 < Cardinality({i \in 1..Len(defs[res.def].argspecs) :
                                   defs[res.def].argspecs[i].cls = "Mandetory"})
         \/ /\ res.op = "resolve"
            /\ TooFewInDocument(nodes0))
        => /\ res.err = "UserCommandParseError"
           /\ res.msg = nodes0[inv].val
           /\ res.out = <<>>

\* C8: invoking a registered macro with more required parameters than it has
\* Mandatory descriptors, or more optional parameters than it has Optional
\* descriptors, fails with a UserCommandParseError.
C8_SurplusParametersIsCallError ==
    LET specs == defs[res.def].argspecs
        count(cls) == Cardinality({i \in 1..Len(specs) : specs[i].cls = cls})
    IN  (/\ res.op = "call"
         /\ \/ NReq(nodes0, res.cmd) > count("Mandetory")
            \/ NOpt(nodes0, res.cmd) > count("Optional"))
        => res.err = "UserCommandParseError"

\* the definition command c does not have exactly two required parameters,
\* or the text of its first optional parameter is no integer
Malformed(ns, c) ==
    \/ NReq(ns, c) # 2
    \/ NOpt(ns, c) > 0 /\ int(text(ns, optional_parameters(ns, c)[1]).s) < 0

\* C11: building an old-style definition from a \newcommand/\renewcommand
\* Command fails with a UserCommandParseError, and no other exception,
\* whenever the Command does not have exactly two required parameters or the
\* text of its first optional parameter is no integer; otherwise it succeeds.
C11_ConstructFailsWithDefinitionError ==
    res.op = "construct" =>
        IF Malformed(nodes0, res.cmd)
        THEN res.err = "UserCommandParseError" /\ res.def = 0
        ELSE res.err = "" /\ res.def # 0

\* the letters of the Text children ks[i..] of an argspec parameter, blanks
\* left out
RECURSIVE SpecLetters(_, _, _)
SpecLetters(ns, ks, i) ==
    IF i > Len(ks) THEN <<>>
    ELSE (IF ns[ks[i]].cls = "Text"
          THEN SelectSeq(Letters(ns[ks[i]].val), LAMBDA l : l # " ")
          ELSE <<>>) \o SpecLetters(ns, ks, i + 1)

\* C12: parsing an xparse argspec yields one descriptor per non-blank
\* letter, in order: Mandatory for m, Optional without default for o,
\* Optional with a default for O; any other letter fails with a
\* UserCommandParseError and is never skipped.
C12_OneDescriptorPerLetter ==
    res.op = "parse_argspecs" =>
        LET ls == SpecLetters(nodes0, nodes0[res.cmd].kids, 1)
        IN  IF \E i \in 1..Len(ls) : ls[i] \notin {"m", "o", "O"}
            THEN res.err = "UserCommandParseError"
            ELSE /\ res.err = ""
                 /\ Len(res.out) = Len(ls)
                 /\ \A i \in 1..Len(ls) :
                        CASE ls[i] = "m" -> res.out[i].cls = "Mandetory"
                          [] ls[i] = "o" -> res.out[i] = Optional(0)
                          [] ls[i] = "O" -> /\ res.out[i].cls = "Optional"
                                            /\ res.out[i].default # 0

\* C23: an old-style definition with nargs = n (0 without [nargs]) has
\* exactly n descriptors: all Mandatory without a second optional parameter,
\* one leading Optional(optdefault) and n - 1 Mandatory with one; never more
\* than n, also for n = 0 with an optdefault.
C23_DescriptorCountIsNargs ==
    (res.op = "construct" /\ res.err = "") =>
        LET dopts == optional_parameters(nodes0, res.cmd)
            n == IF dopts = <<>> THEN 0 ELSE int(text(nodes0, dopts[1]).s)
            specs == defs[res.def].argspecs
        IN  /\ Len(specs) = n
            /\ \A i \in 1..Len(specs) :
                   IF i = 1 /\ Len(dopts) > 1
                   THEN /\ specs[i].cls = "Optional"
                        /\ specs[i].default # 0
                        /\ nodes[specs[i].default].val = text(nodes0, dopts[2]).s
                   ELSE specs[i].cls = "Mandetory"

\* C25: substituting a body that holds Placeholder(N) with N outside 1..k,
\* k the number of arguments bound for the invocation (N = 0 included),
\* fails; the placeholder is never replaced by another argument's value.
C25_PlaceholderOutOfRangeFails ==
    LET specs == defs[res.def].argspecs
        body == definition(nodes0, defs[res.def])
    IN  (/\ res.op = "call"
         /\ nodes0[res.cmd].parent = 1
         /\ NReq(nodes0, res.cmd)
              >= Cardinality({i \in 1..Len(specs) : specs[i].cls = "Mandetory"})
         /\ \E ph \in PlaceholdersIn(nodes0, body) :
                PlaceholderNo(ph) \notin 1..Len(specs))
        => /\ res.err # ""
           /\ res.out = <<>>

\* the nodes of the tree below and including r
RECURSIVE Reach(_, _)
Reach(ns, r) == {r} \cup UNION {Reach(ns, ns[r].kids[i]) : i \in 1..Len(ns[r].kids)}

DeclKeywords == DefKeywords \cup {"NewDocumentCommand"}

\* n lies in or below a parameter of some Command
RECURSIVE InsideCommand(_, _)
InsideCommand(ns, n) ==
    /\ ns[n].parent # 0
    /\ \/ ns[ns[n].parent].cls = "Command"
       \/ InsideCommand(ns, ns[n].parent)

\* the definition commands of the tree that lie inside a Command
NestedDefs(ns) ==
    {n \in OfClass(ns, "Command") : ns[n].val \in DeclKeywords /\ InsideCommand(ns, n)}

RECURSIVE Kept(_, _, _)
Kept(ns, ks, i) ==
    IF i > Len(ks) THEN <<>>
    ELSE IF ns[ks[i]].cls = "Command" /\ ns[ks[i]].val \in DefKeywords
    THEN Kept(ns, ks, i + 1)
    ELSE IF ns[ks[i]].cls = "Command" /\ ns[ks[i]].val = "NewDocumentCommand"
    THEN Kept(ns, ks, i + 2)
    ELSE <<ks[i]>> \o Kept(ns, ks, i + 1)

\* C26: registry and resolution agree on declarations: resolve removes the
\* newcommand/renewcommand Commands and every NewDocumentCommand with exactly
\* its next sibling, which find_user_commands registered; no other sibling
\* is dropped and the kept siblings stay in order.
C26_DeclarationsDroppedSiblingsKept ==
    LET kept == Kept(nodes0, TopLevel(nodes0), 1)
    IN  (/\ res.op = "resolve"
         /\ Len(kept) < Len(TopLevel(nodes0))
         /\ \A i \in 1..Len(kept) : nodes0[kept[i]].cls # "Command")
        => /\ res.err = ""
           /\ Len(nodes[res.out[1]].kids) = Len(kept)
           /\ \A i \in 1..Len(kept) :
                  /\ nodes[nodes[res.out[1]].kids[i]].cls = nodes0[kept[i]].cls
                  /\ nodes[nodes[res.out[1]].kids[i]].val = nodes0[kept[i]].val

\* C28: in the tree resolve returns every node other than the Root is in
\* exactly one children list and its parent reference is the node owning
\* that list.
C28_ParentsMatchOwnership ==
    (res.op = "resolve" /\ res.err = "") =>
        LET tree == Reach(nodes, res.out[1])
            Owners(n) == {p \in tree : \E i \in 1..Len(nodes[p].kids) : nodes[p].kids[i] = n}
        IN  \A n \in tree \ {res.out[1]} :
                /\ Cardinality(Owners(n)) = 1
                /\ nodes[n].parent \in Owners(n)

\* the definition commands find_user_commands comes by, with the macro name
\* and the body each declares: newcommand/renewcommand Commands with two
\* required parameters whose first holds the Command to define, and the
\* sibling after a NewDocumentCommand
Macros(ns) ==
    { [name |-> DeclaredName(ns, dc), body |-> BodyOf(ns, dc)] :
        dc \in {c \in OfClass(ns, "Command") :
                  /\ ns[c].val \in DefKeywords
                  /\ ~InsideCommand(ns, c)
                  /\ NReq(ns, c) = 2
                  /\ ns[required_parameters(ns, c)[1]].kids # <<>>
                  /\ ns[ns[required_parameters(ns, c)[1]].kids[1]].cls = "Command"} }
    \cup
    { [name |-> ns[dc].val, body |-> BodyOf(ns, dc)] :
        dc \in {c \in OfClass(ns, "Command") :
                  /\ ~InsideCommand(ns, c)
                  /\ NReq(ns, c) = 2
                  /\ \E p \in 1..Len(ns) : \E i \in 1..(Len(ns[p].kids) - 1) :
                         /\ ns[p].kids[i + 1] = c
                         /\ ns[ns[p].kids[i]].cls = "Command"
                         /\ ns[ns[p].kids[i]].val = "NewDocumentCommand"} }

\* the macro call graph: a calls b when a body of a holds an invocation of b
Calls(ns) ==
    UNION { { <<m.name, ns[c].val>> :
                c \in {c \in OfClass(ns, "Command") :
                         \E i \in 1..Len(m.body) : c \in Reach(ns, m.body[i])} } :
            m \in Macros(ns) }

\* the pairs joined by a path of at most 2^k edges of E
RECURSIVE Paths(_, _)
Paths(E, k) ==
    IF k = 0 THEN E
    ELSE LET P == Paths(E, k - 1)
         IN  P \cup UNION { { <<p[1], q[2]>> : q \in {q \in P : q[1] = p[2]} } : p \in P }

\* no macro's body, directly or through other macros' bodies, holds an
\* invocation of the macro itself
NonRecursive(ns) ==
    \A e \in Paths(Calls(ns), Cardinality(Macros(ns))) : e[1] # e[2]

\* C27: resolve terminates, by returning a tree or by raising, on every
\* finite tree whose macro definitions are non-recursive; no call runs on
\* for ever for another reason than a cycle in the macro call graph.
C27_ResolveTerminates ==
    (status = "ready" /\ NonRecursive(nodes)) ~> (status \in {"returned", "raised"})

\* resolve has returned the copy of a tree with nested nodes whose macro
\* definitions, if any, are non-recursive
C27_Witness ==
    /\ status = "returned"
    /\ NonRecursive(nodes0)
    /\ OfClass(nodes0, "Environment") # {}
    /\ Len(nodes) >= Len(nodes0) + 3

\* the macro names the definition commands at the top level declare
Declared(ns) ==
    LET ds == DefsIn(ns, TopLevel(ns), 1)
    IN  {DeclaredName(ns, ds[i]) : i \in 1..Len(ds)}

\* the document defines two macros, the body of the first being one
\* invocation of the second, and ends with an invocation of the first
Chain(ns) ==
    LET ds == DefsIn(ns, TopLevel(ns), 1)
        last == TopLevel(ns)[Len(TopLevel(ns))]
    IN  /\ Len(ds) = 2
        /\ DeclaredName(ns, ds[1]) # DeclaredName(ns, ds[2])
        /\ Len(BodyOf(ns, ds[1])) = 1
        /\ ns[BodyOf(ns, ds[1])[1]].cls = "Command"
        /\ ns[BodyOf(ns, ds[1])[1]].val = DeclaredName(ns, ds[2])
        /\ ns[last].cls = "Command"
        /\ ns[last].val = DeclaredName(ns, ds[1])

\* C16: expansion is transitive within one resolve pass: the tree resolve
\* returns holds no Command whose name is in the macro mapping, and a macro
\* whose body is an invocation of another registered macro resolves to the
\* body of that one (\a defined as \b, \b defined as x: \a yields x).
C16_ExpansionIsTransitive ==
    (res.op = "resolve" /\ res.def = 0) =>
        /\ res.err = "" =>
               \A n \in Reach(nodes, res.out[1]) :
                   ~(nodes[n].cls = "Command" /\ nodes[n].val \in Declared(nodes0))
        /\ Chain(nodes0) =>
               /\ res.err = ""
               /\ OutText.s = Flattened(nodes0,
                                        BodyOf(nodes0, DefsIn(nodes0, TopLevel(nodes0), 1)[2]), 1)

\* C17: every occurrence of Placeholder(N) in the body, the second and later
\* ones and those inside parameters of commands of the body included, is
\* replaced by the children of the Nth bound argument.
C17_EveryOccurrenceReplaced ==
    LET specs == defs[res.def].argspecs
        body == definition(nodes0, defs[res.def])
    IN  (/\ res.op = "call"
         /\ nodes0[res.cmd].parent = 1
         /\ \A i \in 1..Len(specs) : specs[i].cls = "Mandetory"
         /\ NReq(nodes0, res.cmd) >= Len(specs)
         /\ \A ph \in PlaceholdersIn(nodes0, body) : PlaceholderNo(ph) \in 1..Len(specs))
        => /\ res.err = ""
           /\ OutText.s = Expected(nodes0, body, 1,
                                   Texts(nodes0, required_parameters(nodes0, res.cmd)))

\* the document holds one well-formed old-style definition followed by two
\* invocations of the macro with equal parameters, as many as it binds
TwoInvocations(ns) ==
    /\ Len(TopLevel(ns)) = 3
    /\ LET dc == TopLevel(ns)[1]
           i1 == TopLevel(ns)[2]
           i2 == TopLevel(ns)[3]
       IN  /\ ns[dc].val \in DefKeywords
           /\ ~Malformed(ns, dc)
           /\ NOpt(ns, dc) = 1
           /\ ns[i1].val = DeclaredName(ns, dc) /\ ns[i2].val = DeclaredName(ns, dc)
           /\ NOpt(ns, i1) = 0 /\ NOpt(ns, i2) = 0
           /\ NReq(ns, i1) = MandatoryCount(ns, dc)
           /\ Texts(ns, required_parameters(ns, i1)) = Texts(ns, required_parameters(ns, i2))

\* C18: every invocation of a registered macro is replaced by its expanded
\* body whatever precedes it: two invocations with equal parameters give
\* equal expansions within one resolve pass, also when the definition object
\* is supplied through the external mapping.
C18_RepeatedInvocationsExpandAlike ==
    (res.op = "resolve" /\ TwoInvocations(nodes0)) =>
        LET dc == TopLevel(nodes0)[1]
            one == Expected(nodes0, BodyOf(nodes0, dc), 1,
                            Texts(nodes0, required_parameters(nodes0, TopLevel(nodes0)[2])))
        IN  /\ res.err = ""
            /\ OutText.s = one \o one

\* C19: resolve does not fail on a tree the builder accepts, and in the tree
\* it returns every BeginScope is a new node linked to one new EndScope that
\* links back to it.
C19_ScopesRelinked ==
    (/\ res.op = "resolve"
     /\ OfClass(nodes0, "Command") = {}
     /\ OfClass(nodes0, "BeginScope") # {})
    => /\ res.err = ""
       /\ \A b \in Reach(nodes, res.out[1]) :
              nodes[b].cls = "BeginScope" =>
                  /\ b > Len(nodes0)
                  /\ \E e \in Reach(nodes, res.out[1]) :
                         /\ nodes[e].cls = "EndScope"
                         /\ e > Len(nodes0)
                         /\ nodes[b].link = e
                         /\ nodes[e].link = b

\* C9: resolve leaves every object of the tree it was given as it was
\* (children, parent, name or text, scope link), whether it returns or
\* fails, and the tree it returns holds none of these objects.
C9_ResolveLeavesInputUntouched ==
    res.op = "resolve" =>
        /\ Len(nodes) >= Len(nodes0)
        /\ \A n \in 1..Len(nodes0) : nodes[n] = nodes0[n]
        /\ res.err = "" => \A n \in Reach(nodes, res.out[1]) : n > Len(nodes0)

C9_Witness ==
    /\ res.op = "resolve"
    /\ res.err = ""
    /\ Len(nodes0) > 3
    /\ Cardinality(Reach(nodes, res.out[1])) > 3

====
